---- MODULE Spec2Model ----
(***************************************************************************)
(* Fixed-block deduplicating codec (src/src/compressor.c, dictionary.c,    *)
(* bin_io.c): the uniform-width encoder compress_file (magic "DDP1"), the  *)
(* field-list encoder compress_file_multi (magic "DDP2") and the decoder   *)
(* decompress_file, which dispatches on the magic.                         *)
(*                                                                         *)
(* Files are sequences of bytes (0..255).  C offsets are 0-based, TLA+     *)
(* sequences 1-based: byte offset k of a buffer is element k+1.            *)
(* Every u32 of every modelled file is below 2^31, so the casts between    *)
(* uint32_t, int and size_t in the source keep the value.                  *)
(* Under Spec and SpecT the environment is fault-free: fopen, malloc,      *)
(* fread within the file and fwrite succeed.  SpecR follows the handles    *)
(* and heap blocks of one call when each of these may fail.                *)
(***************************************************************************)
EXTENDS Integers, Sequences, FiniteSets, TLC

VARIABLES
    mode,               \* "single": compress_file, "multi": compress_file_multi
    width_bytes,        \* compress_file argument
    block_size_samples, \* compress_file argument
    num_segs,           \* compress_file_multi argument
    seg_sizes,          \* compress_file_multi argument
    input,              \* bytes of the input file
    pc,                 \* position of the encode / decode pipeline
    num_blocks,         \* encoder: blocks to process
    b,                  \* encoder: loop counter of the block loop
    dict,               \* encoder: Dictionary
    block_ids,          \* encoder: block_ids[0..b)
    dev_stream,         \* encoder: deviation stream of the blocks admitted
    enc_ret,            \* encoder: return value (-1 while running)
    out_file,           \* file at output_filename of the encoder
    comp,               \* bytes of the file handed to decompress_file
    hdr,                \* decoder: parsed header and section contents
    d_dict,             \* decoder: Dictionary rebuilt from the file
    d_b,                \* decoder: loop counter of the merge loop
    tmp,                \* decoder: reconstructed block buffer
    out,                \* decoder: output buffer (Uninit where not yet written)
    dec_ret,            \* decoder: return value (-1 while running)
    dec_file,           \* file at output_filename of the decoder
    xf,                 \* the deviation transform applied to one block
    res,                \* handles and heap blocks held by one call
    dcall               \* the last call on a Dictionary driven on its own

vars == <<mode, width_bytes, block_size_samples, num_segs, seg_sizes, input,
          pc, num_blocks, b, dict, block_ids, dev_stream, enc_ret, out_file,
          comp, hdr, d_dict, d_b, tmp, out, dec_ret, dec_file, xf, res,
          dcall>>

(***************************************************************************)
(* Bounds of the model                                                     *)
(***************************************************************************)
MaxFileLen == 6     \* longest exhaustively enumerated input file, in bytes
MaxSegs == 2        \* most fields of an enumerated field list
MaxSegSize == 2     \* largest field size of an enumerated field list
MaxSamples == 2     \* largest block_size_samples enumerated
MaxDistinct == 256  \* blocks of the all-distinct-bases input
MaxTamperPos == 2   \* index-stream positions an index overwrite may hit
MaxTamperLen == 4   \* longest input whose encoded file is hand-modified
MaxCutFile == 30    \* longest file that is cut at every length
TMaxSegs == 3       \* transform check: most fields of a field list
TMaxSegSize == 4    \* transform check: largest field size
TMaxSamples == 3    \* transform check: largest block_size_samples
TMaxSeed == 3       \* transform check: first bytes of the patterned blocks
TMaxStep == 3       \* transform check: byte increments of the patterned blocks
TExhaust == 4       \* transform check: block sizes enumerated exhaustively

InputBytes == {0, 1}               \* byte values of the enumerated files
WidthChoices == {1, 2, 3, 4, 8}    \* width_bytes arguments tried (3 is invalid)
Uninit == -1                       \* a byte of a malloc'ed buffer never written

(***************************************************************************)
(* Generic helpers                                                         *)
(***************************************************************************)
Min(x, y) == IF x < y THEN x ELSE y

RECURSIVE SumSeq(_)
SumSeq(s) == IF s = <<>> THEN 0 ELSE Head(s) + SumSeq(Tail(s))

Zeros(n) == [i \in 1..n |-> 0]

\* bytes [off, off+n) of a buffer
Slice(buf, off, n) == SubSeq(buf, off + 1, off + n)

\* buf with bytes [off, off+Len(src)) overwritten by src (memcpy)
Memcpy(buf, off, src) ==
    [i \in 1..Len(buf) |->
        IF i > off /\ i <= off + Len(src) THEN src[i - off] ELSE buf[i]]

\* buf with bytes [off, off+n) set to zero (memset)
Memset0(buf, off, n) ==
    [i \in 1..Len(buf) |-> IF i > off /\ i <= off + n THEN 0 ELSE buf[i]]

SeqsUpTo(S, n) == UNION {[1..k -> S] : k \in 0..n}

NoFile == [exists |-> FALSE, data |-> <<>>]
FileOf(bytes) == [exists |-> TRUE, data |-> bytes]

(***************************************************************************)
(* Little-endian u32 I/O                                                   *)
(***************************************************************************)
write_u32_le(v) ==
    << v % 256, (v \div 256) % 256, (v \div 65536) % 256,
       (v \div 16777216) % 256 >>

\* the u32 at byte offset off of a file; caller checks off + 4 <= Len(f)
read_u32_le(f, off) ==
    f[off + 1] + 256 * f[off + 2] + 65536 * f[off + 3] + 16777216 * f[off + 4]

\* variant: each value is written as one byte
WriteU32sAsBytes(vs) == [k \in 1..Len(vs) |-> vs[k] % 256]

\* the bytes of a loop of write_u32_le calls
WriteU32s(vs) ==
    [k \in 1..(4 * Len(vs)) |-> write_u32_le(vs[((k - 1) \div 4) + 1])[((k - 1) % 4) + 1]]

ReadU32s(f, off, n) == [i \in 1..n |-> read_u32_le(f, off + 4 * (i - 1))]

MagicDDP1 == <<68, 68, 80, 49>>
MagicDDP2 == <<68, 68, 80, 50>>

\* the comparisons of the four magic bytes
IsDDP1(m) == m[1] = 68 /\ m[2] = 68 /\ m[3] = 80 /\ m[4] = 49

\* variant: the version byte is not compared
IsDDP2AnyVersion(m) == m[1] = 68 /\ m[2] = 68 /\ m[3] = 80

IsDDP2(m) == m[1] = 68 /\ m[2] = 68 /\ m[3] = 80 /\ m[4] = 50

(***************************************************************************)
(* Dictionary (dictionary.c): a linked list of nodes in insertion order    *)
(***************************************************************************)
dict_init(block_size) == [nodes |-> <<>>, size |-> 0, block_size |-> block_size]

\* positions (1-based, in list order) of the nodes that satisfy a test
FirstOf(ks) == CHOOSE k \in ks : \A j \in ks : k <= j

\* variant: the walk reports no match
dict_find_never(d, block) == -1

\* variant: the walk keeps the last match instead of returning the first
dict_find_last(d, block) ==
    LET ks == {k \in 1..Len(d.nodes) :
                  Slice(d.nodes[k].block, 0, d.block_size)
                      = Slice(block, 0, d.block_size)}
    IN  IF ks = {} THEN -1
        ELSE d.nodes[CHOOSE k \in ks : \A j \in ks : k >= j].index

\* variant: the walk starts at head->next
dict_find_skips_head(d, block) ==
    LET ks == {k \in 2..Len(d.nodes) :
                  Slice(d.nodes[k].block, 0, d.block_size)
                      = Slice(block, 0, d.block_size)}
    IN  IF ks = {} THEN -1 ELSE d.nodes[FirstOf(ks)].index

\* variant: the comparison accepts the first stored block
dict_find_any(d, block) == IF Len(d.nodes) > 0 THEN d.nodes[1].index ELSE -1

\* walk from head, memcmp over block_size bytes, first match wins
dict_find(d, block) ==
    LET ks == {k \in 1..Len(d.nodes) :
                 Slice(d.nodes[k].block, 0, d.block_size)
                     = Slice(block, 0, d.block_size)}
    IN  IF ks = {} THEN -1 ELSE d.nodes[FirstOf(ks)].index

\* variant: the node is linked at the head of the list
dict_add_at_head(d, block) ==
    [d EXCEPT !.nodes = <<[block |-> Slice(block, 0, d.block_size),
                           index |-> d.size]>> \o @,
              !.size = d.size + 1]

\* variant: the size is advanced twice
dict_add_counts_twice(d, block) ==
    [d EXCEPT !.nodes = Append(@, [block |-> Slice(block, 0, d.block_size),
                                   index |-> d.size]),
              !.size = d.size + 2]

dict_add(d, block) ==
    [d EXCEPT !.nodes = Append(@, [block |-> Slice(block, 0, d.block_size),
                                   index |-> d.size]),
              !.size = d.size + 1]

\* dict.blocks[i] of compressor.c: the block of the first node with index i
dict_get_block(d, index) ==
    LET ks == {k \in 1..Len(d.nodes) : d.nodes[k].index = index}
    IN  IF index < 0 \/ index >= d.size \/ ks = {} THEN <<>>
        ELSE d.nodes[FirstOf(ks)].block

\* variant: every entry is written from the head node's block
DictBytesHead(d) ==
    [k \in 1..(d.size * d.block_size) |->
        dict_get_block(d, 0)[((k - 1) % d.block_size) + 1]]

\* the bytes of the loop that writes dict.blocks[0 .. size-1]
DictBytes(d) ==
    LET blocks == [i \in 0..(d.size - 1) |-> dict_get_block(d, i)]
    IN  [k \in 1..(d.size * d.block_size) |->
            blocks[(k - 1) \div d.block_size][((k - 1) % d.block_size) + 1]]

(***************************************************************************)
(* Deviation transform, uniform width (compress_file, "DDP1")              *)
(***************************************************************************)
compute_dev_len_single(width, samples) ==
    LET base_low_bytes == width \div 2
        has_extra_byte == width % 2
    IN  samples * base_low_bytes + (IF has_extra_byte # 0 THEN 1 ELSE 0)

\* bytes taken from sample s (0-based) of a block
TakeSingle(width, samples, s) ==
    LET base_low_bytes == width \div 2
        has_extra_byte == width % 2
    IN  IF has_extra_byte # 0 /\ s = samples - 1
        THEN base_low_bytes + 1 ELSE base_low_bytes

RECURSIVE ExtractSingleFrom(_, _, _, _, _)
ExtractSingleFrom(s, block, dev, width, samples) ==
    IF s >= samples THEN [block |-> block, dev |-> dev, used |-> Len(dev)]
    ELSE LET take == TakeSingle(width, samples, s)
             off == s * width
         IN  IF take > 0
             THEN ExtractSingleFrom(s + 1, Memset0(block, off, take),
                                    dev \o Slice(block, off, take), width, samples)
             ELSE ExtractSingleFrom(s + 1, block, dev, width, samples)

\* block_buf becomes the base, the low bytes of each sample go to dev_buf
extract_base_and_deviation_single(block_buf, width, samples) ==
    IF width <= 0 \/ samples <= 0
    THEN [block |-> block_buf, dev |-> <<>>, used |-> 0]
    ELSE ExtractSingleFrom(0, block_buf, <<>>, width, samples)

\* acc = [out, used, oob]: oob is set by an access outside base_block,
\* out_block or the bytes of the deviation stream from dev_ptr on
RECURSIVE MergeSingleFrom(_, _, _, _, _, _)
MergeSingleFrom(s, acc, base_block, width, samples, dev) ==
    IF s >= samples \/ acc.oob THEN acc
    ELSE LET take == TakeSingle(width, samples, s)
             off == s * width
             remain == width - take
             bad == \/ take > 0 /\ ( \/ off + take > Len(acc.out)
                                     \/ acc.used + take > Len(dev) )
                    \/ remain > 0 /\ ( \/ off + width > Len(acc.out)
                                       \/ off + width > Len(base_block) )
             o1 == IF take > 0
                   THEN Memcpy(acc.out, off, Slice(dev, acc.used, take))
                   ELSE acc.out
             o2 == IF remain > 0
                   THEN Memcpy(o1, off + take, Slice(base_block, off + take, remain))
                   ELSE o1
         IN  IF bad THEN [acc EXCEPT !.oob = TRUE]
             ELSE MergeSingleFrom(s + 1,
                      [out |-> o2,
                       used |-> IF take > 0 THEN acc.used + take ELSE acc.used,
                       oob |-> FALSE],
                      base_block, width, samples, dev)

\* variant: the base is copied and the deviation bytes are only counted
merge_single_keeps_base(base_block, width, samples, dev, out_block) ==
    [out |-> Memcpy(out_block, 0, base_block),
     used |-> compute_dev_len_single(width, samples), oob |-> FALSE]

merge_base_and_deviation_single(base_block, width, samples, dev, out_block) ==
    IF width <= 0 \/ samples <= 0
    THEN [out |-> out_block, used |-> 0, oob |-> FALSE]
    ELSE MergeSingleFrom(0, [out |-> out_block, used |-> 0, oob |-> FALSE],
                         base_block, width, samples, dev)

(***************************************************************************)
(* Deviation transform, field list (compress_file_multi, "DDP2")           *)
(***************************************************************************)
\* variant: the sizes are summed without testing each one
compute_block_bytes_sum(n, sizes) ==
    LET total == SumSeq(SubSeq(sizes, 1, n)) IN IF total < 0 THEN 0 ELSE total

compute_block_bytes_multi(n, sizes) ==
    IF \E i \in 1..n : sizes[i] <= 0 THEN 0 ELSE SumSeq(SubSeq(sizes, 1, n))

\* bytes taken from field s (1-based) of a block
TakeMulti(n, sizes, s) ==
    LET len == sizes[s]
        take == len \div 2
        extra == len % 2
    IN  IF extra # 0 /\ s = n THEN take + 1 ELSE take

\* variant: the extra byte of an odd last field is not counted
compute_dev_len_half(n, sizes) == SumSeq([s \in 1..n |-> sizes[s] \div 2])

RECURSIVE DevLenFrom(_, _, _)
DevLenFrom(s, n, sizes) ==
    IF s > n THEN 0 ELSE TakeMulti(n, sizes, s) + DevLenFrom(s + 1, n, sizes)

compute_dev_len_multi(n, sizes) == DevLenFrom(1, n, sizes)

RECURSIVE ExtractMultiFrom(_, _, _, _, _, _)
ExtractMultiFrom(s, offset, block, dev, n, sizes) ==
    IF s > n THEN [block |-> block, dev |-> dev, used |-> Len(dev)]
    ELSE LET len == sizes[s]
             take == TakeMulti(n, sizes, s)
         IN  IF take > 0
             THEN ExtractMultiFrom(s + 1, offset + len, Memset0(block, offset, take),
                                   dev \o Slice(block, offset, take), n, sizes)
             ELSE ExtractMultiFrom(s + 1, offset + len, block, dev, n, sizes)

\* variant: the taken bytes are not zeroed in block_buf
extract_multi_keeps_bytes(block_buf, n, sizes) ==
    [ExtractMultiFrom(1, 0, block_buf, <<>>, n, sizes) EXCEPT !.block = block_buf]

\* block_buf becomes the base, the low bytes of each field go to dev_buf
extract_base_and_deviation_multi(block_buf, n, sizes) ==
    ExtractMultiFrom(1, 0, block_buf, <<>>, n, sizes)

RECURSIVE MergeMultiFrom(_, _, _, _, _, _, _)
MergeMultiFrom(s, offset, acc, base_block, n, sizes, dev) ==
    IF s > n \/ acc.oob THEN acc
    ELSE LET len == sizes[s]
             take == TakeMulti(n, sizes, s)
             remain == len - take
             bad == \/ take > 0 /\ ( \/ offset + take > Len(acc.out)
                                     \/ acc.used + take > Len(dev) )
                    \/ remain > 0 /\ ( \/ offset + len > Len(acc.out)
                                       \/ offset + len > Len(base_block) )
             o1 == IF take > 0
                   THEN Memcpy(acc.out, offset, Slice(dev, acc.used, take))
                   ELSE acc.out
             o2 == IF remain > 0
                   THEN Memcpy(o1, offset + take,
                               Slice(base_block, offset + take, remain))
                   ELSE o1
         IN  IF bad THEN [acc EXCEPT !.oob = TRUE]
             ELSE MergeMultiFrom(s + 1, offset + len,
                      [out |-> o2,
                       used |-> IF take > 0 THEN acc.used + take ELSE acc.used,
                       oob |-> FALSE],
                      base_block, n, sizes, dev)

\* variant: the first byte of the block is never restored from the deviation
merge_multi_skips_first(base_block, n, sizes, dev, out_block) ==
    LET r == MergeMultiFrom(1, 0, [out |-> out_block, used |-> 0, oob |-> FALSE],
                            base_block, n, sizes, dev)
    IN  [r EXCEPT !.out = Memcpy(r.out, 0, Slice(base_block, 0, Min(1, Len(base_block))))]

merge_base_and_deviation_multi(base_block, n, sizes, dev, out_block) ==
    MergeMultiFrom(1, 0, [out |-> out_block, used |-> 0, oob |-> FALSE],
                   base_block, n, sizes, dev)

(***************************************************************************)
(* Initial states: the arguments and the input file of one encode          *)
(***************************************************************************)
\* MaxDistinct blocks of two bytes, block i = (i mod 256, i mod 256): under
\* the field list <<2>> byte 0 is the deviation and byte 1 the base, so the
\* first 256 bases are pairwise distinct
DistinctFile == [k \in 1..(2 * MaxDistinct) |-> ((k - 1) \div 2) % 256]

InputFiles == SeqsUpTo(InputBytes, MaxFileLen)

\* no call in progress: nothing opened, nothing allocated
NoRes == [fn |-> "none", at |-> "idle", live |-> {}, nulls |-> {}, nodes |-> 0,
          n |-> 0, entries |-> 0, b |-> 0, ret |-> -1, why |-> "",
          double |-> FALSE]

\* no dictionary call made: added lists the caller's blocks passed to dict_add
NoCall == [op |-> "none", block |-> <<>>, ret |-> -1, before |-> <<>>,
           added |-> <<>>]

\* no transform applied
NoXf == [step |-> "none", base |-> <<>>, dev |-> <<>>, used |-> 0,
         merged |-> <<>>, merge_used |-> 0, oob |-> FALSE]

\* the decoder's locals before the header is parsed
NoHdr == [block_bytes |-> 0, dict_size |-> 0, num_blocks |-> 0,
          dev_len |-> 0, total_bytes |-> 0, width |-> 0, samples |-> 0,
          num_segs |-> 0, seg_sizes |-> <<>>, block_ids |-> <<>>,
          dev_stream |-> <<>>]

Init ==
    /\ mode \in {"single", "multi"}
    /\ IF mode = "single"
       THEN /\ width_bytes \in WidthChoices
            /\ block_size_samples \in 0..MaxSamples
            /\ num_segs = 0
            /\ seg_sizes = <<>>
            /\ input \in InputFiles
       ELSE /\ width_bytes = 0
            /\ block_size_samples = 0
            /\ num_segs \in 0..MaxSegs
            /\ seg_sizes \in [1..num_segs -> (-1)..MaxSegSize]
            /\ input \in InputFiles \cup
                   (IF seg_sizes = <<2>> THEN {DistinctFile} ELSE {})
    /\ pc = "enc_start"
    /\ num_blocks = 0
    /\ b = 0
    /\ dict = dict_init(0)
    /\ block_ids = <<>>
    /\ dev_stream = <<>>
    /\ enc_ret = -1
    /\ out_file = NoFile
    /\ comp = <<>>
    /\ hdr = NoHdr
    /\ d_dict = dict_init(0)
    /\ d_b = 0
    /\ tmp = <<>>
    /\ out = <<>>
    /\ dec_ret = -1
    /\ dec_file = NoFile
    /\ xf = NoXf
    /\ res = NoRes
    /\ dcall = NoCall

args == <<mode, width_bytes, block_size_samples, num_segs, seg_sizes, input, xf,
          res, dcall>>
enc_vars == <<num_blocks, b, dict, block_ids, dev_stream, enc_ret, out_file>>
dec_vars == <<comp, hdr, d_dict, d_b, tmp, out, dec_ret, dec_file>>

EncFail ==
    /\ pc' = "enc_fail"
    /\ enc_ret' = 1
    /\ UNCHANGED <<num_blocks, b, dict, block_ids, dev_stream, out_file>>

\* variant: a trailing partial block counts as a block
BlockCountCeil(nbytes, block_bytes) ==
    (nbytes + block_bytes - 1) \div block_bytes

\* variant: a trailing partial block leaves no block to encode
BlockCountExact(nbytes, block_bytes) ==
    IF nbytes % block_bytes = 0 THEN nbytes \div block_bytes ELSE 0

\* full blocks of block_bytes bytes in a file of nbytes bytes
BlockCount(nbytes, block_bytes) == nbytes \div block_bytes

(***************************************************************************)
(* compress_file: uniform-width encoder                                    *)
(***************************************************************************)
\* argument checks, file size, block count, buffers, dict_init
compress_file_start ==
    /\ pc = "enc_start" /\ mode = "single"
    /\ LET nbytes == Len(input)
           total_samples == nbytes \div width_bytes
           nb == BlockCount(total_samples, block_size_samples)
       IN  IF \/ width_bytes \notin {1, 2, 4, 8}
              \/ block_size_samples <= 0
              \/ nbytes < width_bytes
              \/ total_samples = 0
              \/ nb = 0
           THEN EncFail
           ELSE /\ pc' = "enc_loop"
                /\ num_blocks' = nb
                /\ b' = 0
                /\ dict' = dict_init(block_size_samples * width_bytes)
                /\ block_ids' = <<>>
                /\ dev_stream' = <<>>
                /\ UNCHANGED <<enc_ret, out_file>>
    /\ UNCHANGED <<args, dec_vars>>

\* one iteration of the block loop
compress_file_block ==
    /\ pc = "enc_loop" /\ mode = "single" /\ b < num_blocks
    /\ LET block_size_bytes == dict.block_size
           dev_len_per_block == compute_dev_len_single(width_bytes, block_size_samples)
           block_buf == Slice(input, b * block_size_bytes, block_size_bytes)
           x == extract_base_and_deviation_single(block_buf, width_bytes,
                                                  block_size_samples)
           found == dict_find(dict, x.block)
           idx == IF found = -1 THEN dict.size ELSE found
       IN  IF x.used # dev_len_per_block
           THEN EncFail
           ELSE /\ dev_stream' = dev_stream \o x.dev
                /\ dict' = IF found = -1 THEN dict_add(dict, x.block) ELSE dict
                /\ block_ids' = Append(block_ids, idx)
                /\ b' = b + 1
                /\ UNCHANGED <<pc, num_blocks, enc_ret, out_file>>
    /\ UNCHANGED <<args, dec_vars>>

\* the bytes compress_file writes to output_filename
SingleFileBytes(d, ids, devs, nb, width, samples) ==
    MagicDDP1
    \o write_u32_le(nb * samples) \o write_u32_le(samples)
    \o <<width % 256, 0, 0, 0>>
    \o write_u32_le(d.size) \o write_u32_le(nb)
    \o DictBytes(d)
    \o WriteU32s(ids)
    \o devs

compress_file_write ==
    /\ pc = "enc_loop" /\ mode = "single" /\ b = num_blocks
    /\ out_file' = FileOf(SingleFileBytes(dict, block_ids, dev_stream, num_blocks,
                                          width_bytes, block_size_samples))
    /\ enc_ret' = 0
    /\ pc' = "enc_done"
    /\ UNCHANGED <<num_blocks, b, dict, block_ids, dev_stream>>
    /\ UNCHANGED <<args, dec_vars>>

(***************************************************************************)
(* compress_file_multi: field-list encoder                                 *)
(***************************************************************************)
compress_file_multi_start ==
    /\ pc = "enc_start" /\ mode = "multi"
    /\ LET block_bytes == compute_block_bytes_multi(num_segs, seg_sizes)
           nbytes == Len(input)
           nb == BlockCount(nbytes, block_bytes)
       IN  IF \/ num_segs <= 0
              \/ block_bytes = 0
              \/ nbytes < block_bytes
              \/ nb = 0
           THEN EncFail
           ELSE /\ pc' = "enc_loop"
                /\ num_blocks' = nb
                /\ b' = 0
                /\ dict' = dict_init(block_bytes)
                /\ block_ids' = <<>>
                /\ dev_stream' = <<>>
                /\ UNCHANGED <<enc_ret, out_file>>
    /\ UNCHANGED <<args, dec_vars>>

compress_file_multi_block ==
    /\ pc = "enc_loop" /\ mode = "multi" /\ b < num_blocks
    /\ LET block_bytes == dict.block_size
           dev_len_per_block == compute_dev_len_multi(num_segs, seg_sizes)
           block_buf == Slice(input, b * block_bytes, block_bytes)
           x == extract_base_and_deviation_multi(block_buf, num_segs, seg_sizes)
           found == dict_find(dict, x.block)
           idx == IF found = -1 THEN dict.size ELSE found
       IN  IF x.used # dev_len_per_block
           THEN EncFail
           ELSE /\ dev_stream' = dev_stream \o x.dev
                /\ dict' = IF found = -1 THEN dict_add(dict, x.block) ELSE dict
                /\ block_ids' = Append(block_ids, idx)
                /\ b' = b + 1
                /\ UNCHANGED <<pc, num_blocks, enc_ret, out_file>>
    /\ UNCHANGED <<args, dec_vars>>

\* variant: the deviation stream is written before the index stream
MultiFileBytesDevFirst(d, ids, devs, nb, n, sizes) ==
    MagicDDP2
    \o write_u32_le(d.block_size) \o write_u32_le(n)
    \o write_u32_le(d.size) \o write_u32_le(nb)
    \o WriteU32s(SubSeq(sizes, 1, n))
    \o DictBytes(d)
    \o devs
    \o WriteU32s(ids)

\* the bytes compress_file_multi writes to output_filename
MultiFileBytes(d, ids, devs, nb, n, sizes) ==
    MagicDDP2
    \o write_u32_le(d.block_size) \o write_u32_le(n)
    \o write_u32_le(d.size) \o write_u32_le(nb)
    \o WriteU32s(SubSeq(sizes, 1, n))
    \o DictBytes(d)
    \o WriteU32s(ids)
    \o devs

compress_file_multi_write ==
    /\ pc = "enc_loop" /\ mode = "multi" /\ b = num_blocks
    /\ out_file' = FileOf(MultiFileBytes(dict, block_ids, dev_stream, num_blocks,
                                         num_segs, seg_sizes))
    /\ enc_ret' = 0
    /\ pc' = "enc_done"
    /\ UNCHANGED <<num_blocks, b, dict, block_ids, dev_stream>>
    /\ UNCHANGED <<args, dec_vars>>

(***************************************************************************)
(* The file handed to the decoder: the encoder's output, as written or     *)
(* hand-crafted from it                                                    *)
(***************************************************************************)
MagicChoices == { MagicDDP1, MagicDDP2, <<68, 68, 80, 51>>, <<68, 68, 80, 0>>,
                  <<100, 68, 80, 49>>, <<68, 69, 80, 50>>, <<68, 68, 81, 49>> }

\* byte offset of the index stream in a file the encoder wrote
IdsOffset ==
    IF mode = "single"
    THEN 4 + 8 + 4 + 8 + dict.size * dict.block_size
    ELSE 4 + 16 + 4 * num_segs + dict.size * dict.block_size

ToDecoder(bytes) ==
    /\ comp' = bytes
    /\ pc' = "dec_start"
    /\ UNCHANGED <<hdr, d_dict, d_b, tmp, out, dec_ret, dec_file>>
    /\ UNCHANGED <<args, enc_vars>>

\* the segment file is decoded as the encoder wrote it
HandOver ==
    /\ pc = "enc_done"
    /\ ToDecoder(out_file.data)

\* the first four bytes are replaced
CraftMagic ==
    /\ pc = "enc_done" /\ Len(input) <= MaxTamperLen
    /\ \E m \in MagicChoices \ {Slice(out_file.data, 0, 4)} :
          ToDecoder(Memcpy(out_file.data, 0, m))

\* lengths at which a written file is cut: every length below the file's
\* when the file is short, else the start of each section and of each header
\* field, and one byte less than each
CutPoints ==
    LET n == Len(out_file.data)
        dev_off == IdsOffset + 4 * num_blocks
        dict_off == IdsOffset - dict.size * dict.block_size
        marks == {0, 4, 8, 12, 16, 20, dict_off, IdsOffset, dev_off, n}
    IN  IF n <= MaxCutFile THEN 0..(n - 1)
        ELSE {k \in 0..(n - 1) : \E m \in marks : k \in {m - 1, m}}

\* the file is cut short: the decoder is given a proper prefix of it
CraftPrefix ==
    /\ pc = "enc_done" /\ Len(input) <= MaxTamperLen
    /\ \E k \in CutPoints : ToDecoder(SubSeq(out_file.data, 1, k))

\* one entry of the index stream is replaced
CraftIndex ==
    /\ pc = "enc_done" /\ Len(input) <= MaxTamperLen
    /\ \E p \in {q \in 0..MaxTamperPos : q < num_blocks},
          v \in 0..(Min(dict.size, MaxTamperPos) + 1)
                \cup {dict.size, dict.size + 1, 65536} :
          /\ v # block_ids[p + 1]
          /\ ToDecoder(Memcpy(out_file.data, IdsOffset + 4 * p, write_u32_le(v)))

\* a hand-made DDP2 file: the encoder's header, dictionary and indices with
\* one field size changed, and a deviation stream of the length the new
\* list asks for; the sum of the sizes need not equal block_bytes
CraftSizes ==
    /\ pc = "enc_done" /\ mode = "multi" /\ Len(input) <= MaxTamperLen
    /\ \E s \in 1..num_segs, v \in 0..(MaxSegSize + 1) :
          LET sizes == [seg_sizes EXCEPT ![s] = v]
          IN  /\ v # seg_sizes[s]
              /\ ToDecoder(MultiFileBytes(dict, block_ids,
                     Zeros(num_blocks * compute_dev_len_multi(num_segs, sizes)),
                     num_blocks, num_segs, sizes))

\* a hand-made DDP1 file: the encoder's file with the sample_count field of
\* the header one less or one more than num_blocks * block_size_samples
CraftSamples ==
    /\ pc = "enc_done" /\ mode = "single" /\ Len(input) <= MaxTamperLen
    /\ \E v \in {num_blocks * block_size_samples - 1,
                 num_blocks * block_size_samples + 1} :
          ToDecoder(Memcpy(out_file.data, 4, write_u32_le(v)))

(***************************************************************************)
(* decompress_file and its two decoders                                    *)
(***************************************************************************)
\* variant: the error return carries status 0
DecFailReturnsZero ==
    /\ pc' = "dec_done"
    /\ dec_ret' = 0
    /\ UNCHANGED <<comp, hdr, d_dict, d_b, tmp, out, dec_file>>

\* variant: the blocks rebuilt so far are written before the error return
DecFailWritesPartial ==
    /\ pc' = "dec_done"
    /\ dec_ret' = 1
    /\ dec_file' = FileOf(out)
    /\ UNCHANGED <<comp, hdr, d_dict, d_b, tmp, out>>

DecFail ==
    /\ pc' = "dec_done"
    /\ dec_ret' = 1
    /\ UNCHANGED <<comp, hdr, d_dict, d_b, tmp, out, dec_file>>

\* the test of the merge loops on a block id
InvalidId(id, d) == id >= d.size

\* count items of unit bytes each do not fit in avail bytes (short read)
Short(count, unit, avail) == unit > 0 /\ count > avail \div unit

\* malloc(0) may return NULL or a pointer: the outcomes of an allocation
MallocFails(size) == IF size = 0 THEN {TRUE, FALSE} ELSE {FALSE}

\* variant: the entry counter is one byte wide, so at most 255 entries are read
DictFromBytesByteCount(block_size, f, off, n) ==
    [nodes |-> [k \in 1..Min(n, 255) |->
                   [block |-> Slice(f, off + (k - 1) * block_size, block_size),
                    index |-> k - 1]],
     size |-> Min(n, 255),
     block_size |-> block_size]

\* the loop that reads n blocks at off and dict_add's each to a fresh dictionary
DictFromBytes(block_size, f, off, n) ==
    [nodes |-> [k \in 1..n |-> [block |-> Slice(f, off + (k - 1) * block_size,
                                                block_size),
                                index |-> k - 1]],
     size |-> n,
     block_size |-> block_size]

\* the dispatcher: reads the magic and picks the decoder
decompress_file ==
    /\ pc = "dec_start"
    /\ IF Len(comp) < 4
       THEN DecFail
       ELSE IF IsDDP1(Slice(comp, 0, 4))
            THEN /\ pc' = "dec_single"
                 /\ UNCHANGED dec_vars
            ELSE IF IsDDP2(Slice(comp, 0, 4))
                 THEN /\ pc' = "dec_multi"
                      /\ UNCHANGED dec_vars
                 ELSE DecFail
    /\ UNCHANGED <<args, enc_vars>>

\* decompress_file_single up to the merge loop: magic, header, dictionary,
\* block ids, deviation stream, output buffers
decompress_file_single_read ==
    /\ pc = "dec_single"
    /\ LET f == comp
           n == Len(f)
           sample_count == read_u32_le(f, 4)
           samples == read_u32_le(f, 8)
           width == f[13]
           dict_size == read_u32_le(f, 16)
           nb == read_u32_le(f, 20)
           block_size_bytes == samples * width
           dev_len == compute_dev_len_single(width, samples)
           dict_off == 24
           ids_off == dict_off + dict_size * block_size_bytes
           dev_off == ids_off + 4 * nb
           dev_total == nb * dev_len
           total_bytes == sample_count * width
       IN  IF \/ n < 4
              \/ ~IsDDP1(Slice(f, 0, 4))
              \/ n < 12
              \/ n < 16
              \/ width \notin {1, 2, 4, 8}
              \/ n < 24
           THEN DecFail
           ELSE
           \E null \in MallocFails(block_size_bytes) \cup MallocFails(nb)
                        \cup MallocFails(total_bytes) :
           IF \/ Short(dict_size, block_size_bytes, n - dict_off)
              \/ Short(nb, 4, n - ids_off)
              \/ Short(nb, dev_len, n - dev_off)
              \/ null
           THEN DecFail
           ELSE /\ hdr' = [block_bytes |-> block_size_bytes,
                           dict_size |-> dict_size, num_blocks |-> nb,
                           dev_len |-> dev_len, total_bytes |-> total_bytes,
                           width |-> width, samples |-> samples,
                           num_segs |-> 0, seg_sizes |-> <<>>,
                           block_ids |-> ReadU32s(f, ids_off, nb),
                           dev_stream |-> Slice(f, dev_off, dev_total)]
                /\ d_dict' = DictFromBytes(block_size_bytes, f, dict_off, dict_size)
                /\ d_b' = 0
                /\ tmp' = [i \in 1..block_size_bytes |-> Uninit]
                /\ out' = <<>>
                /\ pc' = "dec_loop_single"
                /\ UNCHANGED <<comp, dec_ret, dec_file>>
    /\ UNCHANGED <<args, enc_vars>>

\* decompress_file_multi up to the merge loop
decompress_file_multi_read ==
    /\ pc = "dec_multi"
    /\ LET f == comp
           n == Len(f)
           block_bytes == read_u32_le(f, 4)
           nsegs == read_u32_le(f, 8)
           dict_size == read_u32_le(f, 12)
           nb == read_u32_le(f, 16)
           sizes == ReadU32s(f, 20, nsegs)
           dev_len == compute_dev_len_multi(nsegs, sizes)
           dict_off == 20 + 4 * nsegs
           ids_off == dict_off + dict_size * block_bytes
           dev_off == ids_off + 4 * nb
           dev_total == nb * dev_len
           total_bytes == nb * block_bytes
       IN  IF \/ n < 4
              \/ ~IsDDP2(Slice(f, 0, 4))
              \/ n < 20
              \/ nsegs <= 0
              \/ Short(nsegs, 4, n - 20)
           THEN DecFail
           ELSE
           \E null \in MallocFails(block_bytes) \cup MallocFails(nb)
                        \cup MallocFails(total_bytes) :
           IF \/ Short(dict_size, block_bytes, n - dict_off)
              \/ Short(nb, 4, n - ids_off)
              \/ Short(nb, dev_len, n - dev_off)
              \/ null
           THEN DecFail
           ELSE /\ hdr' = [block_bytes |-> block_bytes,
                           dict_size |-> dict_size, num_blocks |-> nb,
                           dev_len |-> dev_len, total_bytes |-> total_bytes,
                           width |-> 0, samples |-> 0,
                           num_segs |-> nsegs, seg_sizes |-> sizes,
                           block_ids |-> ReadU32s(f, ids_off, nb),
                           dev_stream |-> Slice(f, dev_off, dev_total)]
                /\ d_dict' = DictFromBytes(block_bytes, f, dict_off, dict_size)
                /\ d_b' = 0
                /\ tmp' = [i \in 1..block_bytes |-> Uninit]
                /\ out' = <<>>
                /\ pc' = "dec_loop_multi"
                /\ UNCHANGED <<comp, dec_ret, dec_file>>
    /\ UNCHANGED <<args, enc_vars>>

\* variant: dev_ptr is dev_stream for every block
DevFromStart(k) == hdr.dev_stream

\* bytes of the deviation stream from dev_ptr of block k on (empty: NULL)
DevFrom(k) ==
    Slice(hdr.dev_stream, k * hdr.dev_len, Len(hdr.dev_stream) - k * hdr.dev_len)

DecStore(m) ==
    /\ tmp' = m
    /\ out' = out \o m
    /\ d_b' = d_b + 1
    /\ UNCHANGED <<pc, comp, hdr, d_dict, dec_ret, dec_file>>

\* an access outside a buffer: the outcome is not defined by the source; the
\* call may return either status, with or without an output file
DecUndefined ==
    /\ pc' = "dec_done"
    /\ dec_ret' \in {0, 1, 139}
    /\ dec_file' \in {dec_file, FileOf(out)}
    /\ UNCHANGED <<comp, hdr, d_dict, d_b, tmp, out>>

\* one iteration of the merge loop of decompress_file_single
decompress_file_single_block ==
    /\ pc = "dec_loop_single" /\ d_b < hdr.num_blocks
    /\ LET id == hdr.block_ids[d_b + 1]
           base_block == dict_get_block(d_dict, id)
           has_dev == Len(hdr.dev_stream) > 0
           m == IF has_dev
                THEN merge_base_and_deviation_single(base_block, hdr.width,
                         hdr.samples, DevFrom(d_b), tmp)
                ELSE [out |-> Memcpy(tmp, 0, base_block), used |-> 0,
                      oob |-> FALSE]
           offset == d_b * hdr.block_bytes
       IN  IF InvalidId(id, d_dict)
           THEN DecFail
           ELSE IF m.oob
                THEN DecUndefined
                ELSE IF \/ has_dev /\ m.used # hdr.dev_len
                        \/ offset + hdr.block_bytes > hdr.total_bytes
                     THEN DecFail
                     ELSE DecStore(m.out)
    /\ UNCHANGED <<args, enc_vars>>

\* one iteration of the merge loop of decompress_file_multi
decompress_file_multi_block ==
    /\ pc = "dec_loop_multi" /\ d_b < hdr.num_blocks
    /\ LET id == hdr.block_ids[d_b + 1]
           base_block == dict_get_block(d_dict, id)
           has_dev == Len(hdr.dev_stream) > 0
           m == IF has_dev
                THEN merge_base_and_deviation_multi(base_block, hdr.num_segs,
                         hdr.seg_sizes, DevFrom(d_b), tmp)
                ELSE [out |-> Memcpy(tmp, 0, base_block), used |-> 0,
                      oob |-> FALSE]
           offset == d_b * hdr.block_bytes
       IN  IF InvalidId(id, d_dict)
           THEN DecFail
           ELSE IF m.oob
                THEN DecUndefined
                ELSE IF \/ has_dev /\ m.used # hdr.dev_len
                        \/ offset + hdr.block_bytes > hdr.total_bytes
                     THEN DecFail
                     ELSE DecStore(m.out)
    /\ UNCHANGED <<args, enc_vars>>

\* bytes of the output buffer never written hold whatever malloc returned
FillChoices == {0, 255}

\* write_binary_file(output_filename, out, total_bytes) and the return
decompress_write ==
    /\ pc \in {"dec_loop_single", "dec_loop_multi"} /\ d_b = hdr.num_blocks
    /\ \E fill \in (IF Len(out) < hdr.total_bytes \/ Uninit \in {out[i] : i \in 1..Len(out)}
                    THEN FillChoices ELSE {0}) :
          dec_file' = FileOf([i \in 1..hdr.total_bytes |->
                                 IF i > Len(out) \/ out[i] = Uninit
                                 THEN fill ELSE out[i]])
    /\ dec_ret' = 0
    /\ pc' = "dec_done"
    /\ UNCHANGED <<comp, hdr, d_dict, d_b, tmp, out>>
    /\ UNCHANGED <<args, enc_vars>>

Next ==
    \/ compress_file_start
    \/ compress_file_block
    \/ compress_file_write
    \/ compress_file_multi_start
    \/ compress_file_multi_block
    \/ compress_file_multi_write
    \/ HandOver
    \/ CraftMagic
    \/ CraftIndex
    \/ CraftPrefix
    \/ CraftSizes
    \/ CraftSamples
    \/ decompress_file
    \/ decompress_file_single_read
    \/ decompress_file_multi_read
    \/ decompress_file_single_block
    \/ decompress_file_multi_block
    \/ decompress_write

Spec == Init /\ [][Next]_vars

(***************************************************************************)
(* The deviation transform on its own: one block is split by the           *)
(* encoder's extract function and rebuilt by the decoder's merge function  *)
(***************************************************************************)
\* blocks of n bytes: patterned ones, and every block over {0, 255} when short
TBlocks(n) ==
    {[i \in 1..n |-> (seed + (i - 1) * step) % 256] :
        seed \in 0..TMaxSeed, step \in 0..TMaxStep}
    \cup (IF n <= TExhaust THEN [1..n -> {0, 255}] ELSE {})

InitT ==
    /\ mode \in {"single", "multi"}
    /\ IF mode = "single"
       THEN /\ width_bytes \in {1, 2, 4, 8}
            /\ block_size_samples \in 1..TMaxSamples
            /\ num_segs = 0
            /\ seg_sizes = <<>>
            /\ input \in TBlocks(width_bytes * block_size_samples)
       ELSE /\ width_bytes = 0
            /\ block_size_samples = 0
            /\ num_segs \in 1..TMaxSegs
            /\ seg_sizes \in [1..num_segs -> 1..TMaxSegSize]
            /\ input \in TBlocks(compute_block_bytes_multi(num_segs, seg_sizes))
    /\ pc = "xf_start"
    /\ num_blocks = 0
    /\ b = 0
    /\ dict = dict_init(0)
    /\ block_ids = <<>>
    /\ dev_stream = <<>>
    /\ enc_ret = -1
    /\ out_file = NoFile
    /\ comp = <<>>
    /\ hdr = NoHdr
    /\ d_dict = dict_init(0)
    /\ d_b = 0
    /\ tmp = <<>>
    /\ out = <<>>
    /\ dec_ret = -1
    /\ dec_file = NoFile
    /\ xf = NoXf
    /\ res = NoRes
    /\ dcall = NoCall

xf_rest == <<mode, width_bytes, block_size_samples, num_segs, seg_sizes, input,
             enc_vars, dec_vars, res, dcall>>

\* the encoder's split of block_buf
xf_extract ==
    /\ pc = "xf_start"
    /\ LET x == IF mode = "single"
                THEN extract_base_and_deviation_single(input, width_bytes,
                                                       block_size_samples)
                ELSE extract_base_and_deviation_multi(input, num_segs, seg_sizes)
       IN  xf' = [xf EXCEPT !.step = "split", !.base = x.block, !.dev = x.dev,
                            !.used = x.used]
    /\ pc' = "xf_split"
    /\ UNCHANGED xf_rest

\* the decoder's merge of the base and the deviation into a fresh buffer
xf_merge ==
    /\ pc = "xf_split"
    /\ LET fresh == [i \in 1..Len(xf.base) |-> Uninit]
           m == IF mode = "single"
                THEN merge_base_and_deviation_single(xf.base, width_bytes,
                         block_size_samples, xf.dev, fresh)
                ELSE merge_base_and_deviation_multi(xf.base, num_segs, seg_sizes,
                         xf.dev, fresh)
       IN  xf' = [xf EXCEPT !.step = "merged", !.merged = m.out,
                            !.merge_used = m.used, !.oob = m.oob]
    /\ pc' = "xf_done"
    /\ UNCHANGED xf_rest

NextT ==
    \/ xf_extract
    \/ xf_merge

SpecT == InitT /\ [][NextT]_vars

(***************************************************************************)
(* Handles and heap blocks of one call of compress_file_multi or           *)
(* decompress_file_multi: here fopen, malloc, fseek, fread and fwrite may  *)
(* fail, and every exit path of the source runs its own list of releases   *)
(***************************************************************************)
RMaxBlocks == 2
RMaxEntries == 2

\* fopen or malloc returned a handle or a block
Acquire(r, x) == [r EXCEPT !.live = @ \cup {x}, !.nulls = @ \ {x}]

\* fopen or malloc returned NULL, or the pointer was initialised to NULL
IsNull(r, x) == [r EXCEPT !.nulls = @ \cup {x}]

\* free(x) or fclose(x): releases x, does nothing on NULL, and is a second
\* release when x was released before
Free(r, x) ==
    IF x \in r.live THEN [r EXCEPT !.live = @ \ {x}]
    ELSE IF x \in r.nulls THEN r
    ELSE [r EXCEPT !.double = TRUE]

RECURSIVE FreeAll(_, _)
FreeAll(r, xs) ==
    IF xs = <<>> THEN r ELSE FreeAll(Free(r, Head(xs)), Tail(xs))

\* dict_free: every node and its block freed, head reset to NULL
dict_free(r) == [r EXCEPT !.nodes = 0]

Return(r, code, why) == [r EXCEPT !.at = "returned", !.ret = code, !.why = why]

\* exit(1): the process ends inside the callee, the caller's releases never run
Exit(r, why) == [r EXCEPT !.at = "exited", !.ret = 1, !.why = why]

\* the outcomes of dict_add: node malloc fails, block malloc fails (the node
\* is freed first), or the node is linked
dict_add_outcomes(r) ==
    { Exit(r, "dict_add: malloc DictNode"),
      Exit(r, "dict_add: malloc block copy"),
      [r EXCEPT !.nodes = @ + 1] }

InitR ==
    /\ mode = "multi"
    /\ width_bytes = 0
    /\ block_size_samples = 0
    /\ num_segs = 0
    /\ seg_sizes = <<>>
    /\ input = <<>>
    /\ pc = "res"
    /\ num_blocks = 0
    /\ b = 0
    /\ dict = dict_init(0)
    /\ block_ids = <<>>
    /\ dev_stream = <<>>
    /\ enc_ret = -1
    /\ out_file = NoFile
    /\ comp = <<>>
    /\ hdr = NoHdr
    /\ d_dict = dict_init(0)
    /\ d_b = 0
    /\ tmp = <<>>
    /\ out = <<>>
    /\ dec_ret = -1
    /\ dec_file = NoFile
    /\ xf = NoXf
    /\ dcall = NoCall
    /\ res \in {[NoRes EXCEPT !.fn = "compress_file_multi", !.at = "start",
                              !.n = n] : n \in 1..RMaxBlocks}
            \cup {[NoRes EXCEPT !.fn = "decompress_file_multi", !.at = "start",
                                !.n = n, !.entries = e] :
                     n \in 0..RMaxBlocks, e \in 0..RMaxEntries}

res_rest == <<mode, width_bytes, block_size_samples, num_segs, seg_sizes, input,
              xf, pc, enc_vars, dec_vars, dcall>>

EncBuffers == <<"block_buf", "dev_buf", "dev_stream", "block_ids">>

\* argument checks and fopen(input_filename)
res_compress_file_multi_open ==
    /\ res.fn = "compress_file_multi" /\ res.at = "start"
    /\ res' \in { Return(res, 1, "invalid num_segs or seg_sizes"),
                  Return(IsNull(res, "fin"), 1, "fopen input"),
                  [Acquire(res, "fin") EXCEPT !.at = "size"] }
    /\ UNCHANGED res_rest

\* fseek, ftell, fseek and the size test
res_compress_file_multi_size ==
    /\ res.fn = "compress_file_multi" /\ res.at = "size"
    /\ res' \in { Return(Free(res, "fin"), 1, w) :
                     w \in {"fseek end", "ftell", "fseek set", "too small"} }
                \cup { [res EXCEPT !.at = "alloc"] }
    /\ UNCHANGED res_rest

\* malloc of block_ids, dev_stream, then dict_init, block_buf and dev_buf
res_compress_file_multi_alloc ==
    /\ res.fn = "compress_file_multi" /\ res.at = "alloc"
    /\ LET r1 == Acquire(res, "block_ids")
           r2 == Acquire(r1, "dev_stream")
           bufs(okb, okd) ==
               LET rb == IF okb THEN Acquire(r2, "block_buf")
                         ELSE IsNull(r2, "block_buf")
               IN  IF okd THEN Acquire(rb, "dev_buf") ELSE IsNull(rb, "dev_buf")
       IN  res' \in
             { Return(Free(IsNull(res, "block_ids"), "fin"), 1, "malloc block_ids"),
               Return(FreeAll(IsNull(r1, "dev_stream"), <<"block_ids", "fin">>),
                      1, "malloc dev_stream") }
             \cup { IF okb /\ okd
                    THEN [bufs(okb, okd) EXCEPT !.at = "loop", !.b = 0]
                    ELSE Return(Free(dict_free(FreeAll(bufs(okb, okd), EncBuffers)),
                                     "fin"),
                                1, "malloc block_buf or dev_buf") :
                    okb \in BOOLEAN, okd \in BOOLEAN }
    /\ UNCHANGED res_rest

\* one iteration of the block loop: fread, extract, dict_find, dict_add
res_compress_file_multi_block ==
    /\ res.fn = "compress_file_multi" /\ res.at = "loop" /\ res.b < res.n
    /\ LET next == [res EXCEPT !.b = @ + 1]
       IN  res' \in
             { Return(Free(dict_free(FreeAll(res, EncBuffers)), "fin"),
                      1, "fread block") }
             \cup (IF res.nodes > 0 THEN {next} ELSE {})
             \cup dict_add_outcomes(next)
    /\ UNCHANGED res_rest

\* fclose(fin), fopen(output_filename), the writes, and the releases
res_compress_file_multi_output ==
    /\ res.fn = "compress_file_multi" /\ res.at = "loop" /\ res.b = res.n
    /\ LET r1 == Free(res, "fin")
           r2 == Acquire(r1, "fp")
           done == dict_free(FreeAll(r2, <<"fp">> \o EncBuffers))
       IN  res' \in
             { Return(dict_free(FreeAll(IsNull(r1, "fp"), EncBuffers)),
                      1, "fopen output") }
             \cup { Return(done, 1, w) :
                      w \in {"write magic", "write header", "write seg_sizes",
                             "write dictionary", "write block id",
                             "write deviation stream"} }
             \cup { Return(done, 0, "") }
    /\ UNCHANGED res_rest

DecBuffers == <<"out", "tmp", "dev_stream", "block_ids", "seg_sizes">>

\* fopen, the magic, the four header fields, malloc of seg_sizes
res_decompress_file_multi_header ==
    /\ res.fn = "decompress_file_multi" /\ res.at = "start"
    /\ LET r1 == Acquire(res, "fp")
       IN  res' \in
             { Return(IsNull(res, "fp"), 1, "fopen compressed") }
             \cup { Return(Free(r1, "fp"), 1, w) :
                      w \in {"read magic", "invalid magic", "read header",
                             "invalid num_segs"} }
             \cup { Return(Free(IsNull(r1, "seg_sizes"), "fp"), 1,
                           "malloc seg_sizes"),
                    [Acquire(r1, "seg_sizes") EXCEPT !.at = "sizes"] }
    /\ UNCHANGED res_rest

\* the loop that reads seg_sizes
res_decompress_file_multi_sizes ==
    /\ res.fn = "decompress_file_multi" /\ res.at = "sizes"
    /\ res' \in { Return(FreeAll(res, <<"seg_sizes", "fp">>), 1, "read seg_sizes"),
                  [res EXCEPT !.at = "dict", !.b = 0] }
    /\ UNCHANGED res_rest

\* one iteration of the dictionary loop: malloc buf, fread, dict_add, free(buf)
res_decompress_file_multi_entry ==
    /\ res.fn = "decompress_file_multi" /\ res.at = "dict" /\ res.b < res.entries
    /\ LET r1 == Acquire(res, "buf")
           fail(r, xs) == Free(dict_free(FreeAll(r, xs)), "fp")
       IN  res' \in
             { Return(fail(IsNull(res, "buf"), <<"seg_sizes">>), 1, "malloc buf"),
               Return(fail(r1, <<"buf", "seg_sizes">>), 1, "read dictionary block") }
             \cup { IF r.at = "exited" THEN r
                    ELSE [Free(r, "buf") EXCEPT !.b = @ + 1] :
                    r \in dict_add_outcomes(r1) }
    /\ UNCHANGED res_rest

\* malloc and read of block_ids and of the deviation stream, fclose(fp)
res_decompress_file_multi_streams ==
    /\ res.fn = "decompress_file_multi" /\ res.at = "dict" /\ res.b = res.entries
    /\ LET r1 == Acquire(res, "block_ids")
           r2 == Acquire(r1, "dev_stream")
           fail(r, xs) == Free(dict_free(FreeAll(r, xs)), "fp")
       IN  res' \in
             { Return(fail(IsNull(res, "block_ids"), <<"seg_sizes">>), 1,
                      "malloc block_ids"),
               Return(fail(IsNull(r1, "dev_stream"), <<"block_ids", "seg_sizes">>),
                      1, "malloc dev_stream"),
               Return(fail(r2, <<"dev_stream", "block_ids", "seg_sizes">>), 1,
                      "read deviation stream"),
               \* dev_total_bytes = 0: dev_stream stays NULL
               [Free(IsNull(r1, "dev_stream"), "fp") EXCEPT !.at = "buffers"],
               [Free(r2, "fp") EXCEPT !.at = "buffers"] }
             \cup (IF res.n > 0
                   THEN { Return(fail(r1, <<"block_ids", "seg_sizes">>), 1,
                                 "read block id") }
                   ELSE {})
    /\ UNCHANGED res_rest

\* malloc of out and tmp
res_decompress_file_multi_buffers ==
    /\ res.fn = "decompress_file_multi" /\ res.at = "buffers"
    /\ LET bufs(oko, okt) ==
               LET ro == IF oko THEN Acquire(res, "out") ELSE IsNull(res, "out")
               IN  IF okt THEN Acquire(ro, "tmp") ELSE IsNull(ro, "tmp")
       IN  res' \in
             { IF oko /\ okt
               THEN [bufs(oko, okt) EXCEPT !.at = "merge", !.b = 0]
               ELSE Return(dict_free(FreeAll(bufs(oko, okt), DecBuffers)), 1,
                           "malloc out or tmp") :
               oko \in BOOLEAN, okt \in BOOLEAN }
    /\ UNCHANGED res_rest

\* one iteration of the merge loop
res_decompress_file_multi_block ==
    /\ res.fn = "decompress_file_multi" /\ res.at = "merge" /\ res.b < res.n
    /\ res' \in { Return(dict_free(FreeAll(res, DecBuffers)), 1, w) :
                     w \in {"invalid dictionary id", "merge used_dev",
                            "output buffer overflow risk"} }
                \cup { [res EXCEPT !.b = @ + 1] }
    /\ UNCHANGED res_rest

\* write_binary_file, then the releases
res_decompress_file_multi_write ==
    /\ res.fn = "decompress_file_multi" /\ res.at = "merge" /\ res.b = res.n
    /\ LET written == Free(Acquire(res, "fp"), "fp")
       IN  res' \in
             { Return(dict_free(FreeAll(IsNull(res, "fp"), DecBuffers)), 1,
                      "fopen output"),
               Return(dict_free(FreeAll(written, DecBuffers)), 1,
                      "write all bytes"),
               Return(dict_free(FreeAll(written, DecBuffers)), 0, "") }
    /\ UNCHANGED res_rest

NextR ==
    \/ res_compress_file_multi_open
    \/ res_compress_file_multi_size
    \/ res_compress_file_multi_alloc
    \/ res_compress_file_multi_block
    \/ res_compress_file_multi_output
    \/ res_decompress_file_multi_header
    \/ res_decompress_file_multi_sizes
    \/ res_decompress_file_multi_entry
    \/ res_decompress_file_multi_streams
    \/ res_decompress_file_multi_buffers
    \/ res_decompress_file_multi_block
    \/ res_decompress_file_multi_write

SpecR == InitR /\ [][NextR]_vars

(***************************************************************************)
(* The Dictionary on its own: dict_init, then any sequence of dict_add and *)
(* dict_find calls, duplicates included; the caller reuses its buffer      *)
(***************************************************************************)
DMaxBlockSize == 2
DMaxAdds == 3

DBytes == {0, 255}

\* the value dict_add returns: node->index, set from dict->size before the
\* increment
dict_add_index(d, block) == d.size

InitD ==
    /\ mode = "multi"
    /\ width_bytes = 0
    /\ block_size_samples = 0
    /\ num_segs = 0
    /\ seg_sizes = <<>>
    /\ input = <<>>
    /\ pc = "dict"
    /\ num_blocks = 0
    /\ b = 0
    /\ dict \in {dict_init(n) : n \in 1..DMaxBlockSize}
    /\ block_ids = <<>>
    /\ dev_stream = <<>>
    /\ enc_ret = -1
    /\ out_file = NoFile
    /\ comp = <<>>
    /\ hdr = NoHdr
    /\ d_dict = dict_init(0)
    /\ d_b = 0
    /\ tmp = <<>>
    /\ out = <<>>
    /\ dec_ret = -1
    /\ dec_file = NoFile
    /\ xf = NoXf
    /\ res = NoRes
    /\ dcall = NoCall

dcall_rest == <<mode, width_bytes, block_size_samples, num_segs, seg_sizes, input,
                xf, res, pc, num_blocks, b, block_ids, dev_stream, enc_ret,
                out_file, dec_vars>>

\* idx = dict_add(&dict, block) on a caller's buffer of block_size bytes
call_dict_add ==
    /\ pc = "dict" /\ dict.size < DMaxAdds
    /\ \E block \in [1..dict.block_size -> DBytes] :
          /\ dict' = dict_add(dict, block)
          /\ dcall' = [op |-> "add", block |-> block,
                       ret |-> dict_add_index(dict, block), before |-> dict,
                       added |-> Append(dcall.added, block)]
    /\ UNCHANGED dcall_rest

\* idx = dict_find(&dict, block)
call_dict_find ==
    /\ pc = "dict"
    /\ \E block \in [1..dict.block_size -> DBytes] :
          dcall' = [dcall EXCEPT !.op = "find", !.block = block,
                                 !.ret = dict_find(dict, block),
                                 !.before = dict]
    /\ UNCHANGED <<dict, dcall_rest>>

\* the caller overwrites its buffer after the call (the next fread)
call_reuse_buffer ==
    /\ pc = "dict" /\ dcall.op = "add"
    /\ \E block \in [1..dict.block_size -> DBytes] \ {dcall.block} :
          dcall' = [dcall EXCEPT !.op = "reuse", !.block = block]
    /\ UNCHANGED <<dict, dcall_rest>>

NextD ==
    \/ call_dict_add
    \/ call_dict_find
    \/ call_reuse_buffer

SpecD == InitD /\ [][NextD]_vars

(***************************************************************************)
(* Properties                                                              *)
(***************************************************************************)
ArgsValid ==
    IF mode = "single"
    THEN width_bytes \in {1, 2, 4, 8} /\ block_size_samples >= 1
    ELSE num_segs >= 1 /\ \A i \in 1..num_segs : seg_sizes[i] >= 1

ArgBlockBytes ==
    IF mode = "single" THEN width_bytes * block_size_samples
    ELSE SumSeq(seg_sizes)

InputBlock(k) == Slice(input, k * ArgBlockBytes, ArgBlockBytes)

SplitOf(block) ==
    IF mode = "single"
    THEN extract_base_and_deviation_single(block, width_bytes, block_size_samples)
    ELSE extract_base_and_deviation_multi(block, num_segs, seg_sizes)

EncReturned == pc \notin {"enc_start", "enc_loop"}

\* the decoder was given the encoder's file as written
Untampered == pc \in {"dec_start", "dec_single", "dec_multi", "dec_loop_single",
                      "dec_loop_multi", "dec_done"} /\ comp = out_file.data

\* C1: Round-trip.  For every field list with all sizes >= 1 and every input
\* whose length is a positive multiple of block_bytes, compress_file_multi
\* succeeds, and decompress_file applied to the file it wrote returns 0 and
\* writes exactly the input.
RoundTrip ==
    (mode = "multi" /\ ArgsValid /\ Len(input) > 0
        /\ Len(input) % ArgBlockBytes = 0)
    => /\ pc # "enc_fail"
       /\ (EncReturned => enc_ret = 0 /\ out_file.exists)
       /\ (pc = "dec_done" /\ Untampered
              => dec_ret = 0 /\ dec_file = FileOf(input))

RoundTripWitness ==
    /\ mode = "multi" /\ num_segs = 2 /\ pc = "dec_done" /\ Untampered
    /\ Len(input) % ArgBlockBytes = 0
    /\ num_blocks >= 2 /\ dict.size >= 2
    /\ dec_ret = 0 /\ dec_file = FileOf(input)

\* C2: Truncation.  For every input with len >= block_bytes and
\* len mod block_bytes = r > 0 the encoder succeeds, processes exactly
\* floor(len / block_bytes) blocks, and decoding the file it wrote yields the
\* input truncated to len - r bytes (both encoders).
Truncation ==
    (ArgsValid /\ Len(input) >= ArgBlockBytes /\ Len(input) % ArgBlockBytes > 0)
    => /\ pc # "enc_fail"
       /\ (pc # "enc_start" => num_blocks = Len(input) \div ArgBlockBytes)
       /\ (EncReturned => /\ enc_ret = 0 /\ out_file.exists
                          /\ b = Len(input) \div ArgBlockBytes
                          /\ Len(block_ids) = b)
       /\ (pc = "dec_done" /\ Untampered
              => /\ dec_ret = 0
                 /\ dec_file = FileOf(SubSeq(input, 1,
                        Len(input) - (Len(input) % ArgBlockBytes))))

TruncationWitness ==
    /\ mode = "multi" /\ pc = "dec_done" /\ Untampered
    /\ Len(input) % ArgBlockBytes > 0
    /\ num_blocks >= 2
    /\ dec_ret = 0 /\ dec_file.exists /\ Len(dec_file.data) < Len(input)

\* header fields and section offsets of the file the encoder wrote
HdrDictSize(f) ==
    IF mode = "single" THEN read_u32_le(f, 16) ELSE read_u32_le(f, 12)

HdrNumBlocks(f) ==
    IF mode = "single" THEN read_u32_le(f, 20) ELSE read_u32_le(f, 16)

DictOffset == IF mode = "single" THEN 24 ELSE 20 + 4 * num_segs

ArgDevLen ==
    IF mode = "single"
    THEN compute_dev_len_single(width_bytes, block_size_samples)
    ELSE compute_dev_len_multi(num_segs, seg_sizes)

BaseOf(k) == SplitOf(InputBlock(k)).block

\* the distinct bases among input blocks 0 .. n-1
BasesBelow(n) == {BaseOf(k) : k \in 0..(n - 1)}

\* C3 as stated: Cap invariant.  At every point of an encode and in every
\* file written, the dictionary holds at most 255 entries.
CapInvariant ==
    mode = "multi"
    => /\ dict.size <= 255
       /\ (pc = "enc_done" => HdrDictSize(out_file.data) <= 255)

\* C3 as amended: the dictionary is not capped; at every point of an encode
\* it holds at most as many entries as blocks admitted so far, and the
\* header's dict_size is the dictionary's size and at most num_blocks.
DictWithinBlocks ==
    mode = "multi"
    => /\ dict.size <= b
       /\ Len(dict.nodes) = dict.size
       /\ (pc = "enc_done"
              => /\ HdrDictSize(out_file.data) = dict.size
                 /\ HdrDictSize(out_file.data) <= HdrNumBlocks(out_file.data))

DictAboveCapWitness ==
    /\ mode = "multi" /\ pc = "enc_done"
    /\ HdrDictSize(out_file.data) = 256

\* C4 as stated: Segment split.  An input of 256 pairwise-distinct bases
\* makes the encoder flush at 255 entries: the file at the output path has
\* dict_size 255 and num_blocks 255 (the 256th block going to a second file).
SegmentSplit ==
    (mode = "multi" /\ pc = "enc_done"
        /\ Cardinality(BasesBelow(num_blocks)) = 256)
    => /\ HdrDictSize(out_file.data) = 255
       /\ HdrNumBlocks(out_file.data) = 255

\* C4 as amended: the encoder never splits.  When a base is absent it is
\* inserted at index dict.size whatever that size is; the one file, written
\* to the output path, holds every block of the input and one dictionary
\* entry per distinct base (256 distinct bases: dict_size 256, num_blocks 256).
NoSegmentSplit ==
    (mode = "multi" /\ pc \in {"enc_loop", "enc_done"})
    => /\ Len(block_ids) = b
       /\ dict.size = Cardinality(BasesBelow(b))
       /\ (b > 0 /\ BaseOf(b - 1) \notin BasesBelow(b - 1)
              => block_ids[b] = dict.size - 1)
       /\ (pc = "enc_done"
              => /\ HdrNumBlocks(out_file.data) = Len(input) \div ArgBlockBytes
                 /\ HdrDictSize(out_file.data) = Cardinality(BasesBelow(num_blocks)))

NoSegmentSplitWitness ==
    /\ mode = "multi" /\ pc = "enc_done"
    /\ Cardinality(BasesBelow(num_blocks)) = 256
    /\ HdrDictSize(out_file.data) = 256 /\ HdrNumBlocks(out_file.data) >= 256

\* C5 as stated: One-byte indices.  Every index written is in 0..254 and
\* occupies one byte, so the index stream is num_blocks bytes long.
OneByteIndices ==
    (mode = "multi" /\ pc = "enc_done")
    => /\ \A k \in 1..num_blocks : block_ids[k] >= 0 /\ block_ids[k] <= 254
       /\ Len(out_file.data) = IdsOffset + num_blocks + num_blocks * ArgDevLen

\* C5 as amended: every index written is in 0 .. dict_size-1 and occupies
\* four bytes (a little-endian u32), so the index stream is 4 * num_blocks
\* bytes long.
FourByteIndices ==
    (mode = "multi" /\ pc = "enc_done")
    => /\ Len(out_file.data) = IdsOffset + 4 * num_blocks + num_blocks * ArgDevLen
       /\ \A k \in 1..num_blocks :
             /\ block_ids[k] >= 0 /\ block_ids[k] < dict.size
             /\ Slice(out_file.data, IdsOffset + 4 * (k - 1), 4)
                    = <<block_ids[k] % 256, (block_ids[k] \div 256) % 256, 0, 0>>

FourByteIndicesWitness ==
    /\ mode = "multi" /\ pc = "enc_done"
    /\ \E k \in 1..num_blocks : block_ids[k] = 255

\* C6: Dictionary correctness.  In every file the encoder writes, for every
\* block position p the index at position p of the index stream is below
\* dict_size and the dictionary entry at that index equals the base obtained
\* by splitting input block p (both encoders).
DictionaryCorrect ==
    pc = "enc_done"
    => \A p \in 0..(num_blocks - 1) :
          LET f == out_file.data
              i == read_u32_le(f, IdsOffset + 4 * p)
          IN  /\ i < HdrDictSize(f)
              /\ Slice(f, DictOffset + i * ArgBlockBytes, ArgBlockBytes) = BaseOf(p)

DictionaryCorrectWitness ==
    /\ pc = "enc_done"
    /\ num_blocks >= 3 /\ dict.size = 2
    /\ block_ids[1] = 0 /\ block_ids[2] = 1 /\ block_ids[3] = 0

\* C7: Deviation inverse.  For every valid layout and every block of
\* block_bytes bytes, merging the base and the deviation that the split
\* produced gives the block back, without reading or writing outside a
\* buffer; for the field-list transform and for the uniform-width transform.
DeviationInverse ==
    pc = "xf_done"
    => /\ ~xf.oob
       /\ xf.merged = input
       /\ xf.merge_used = xf.used
       /\ xf.used = ArgDevLen

DeviationInverseWitness ==
    /\ pc = "xf_done" /\ mode = "single" /\ width_bytes = 4
    /\ block_size_samples >= 2
    /\ xf.base # input /\ Len(xf.dev) >= 4
    /\ xf.merged = input

\* 0-based offset of field s (1-based) in a block of the field list
FieldStart(s) == SumSeq(SubSeq(seg_sizes, 1, s - 1))

\* 0-based deviation positions of a block: the first bytes of each field
DevPositions ==
    UNION {{FieldStart(s) + j : j \in 0..(TakeMulti(num_segs, seg_sizes, s) - 1)} :
              s \in 1..num_segs}

AgreeOutsideDev(b1, b2) ==
    \A i \in 0..(ArgBlockBytes - 1) : i \notin DevPositions => b1[i + 1] = b2[i + 1]

\* C8: Base collapse.  For every field list and all blocks b1, b2 of an
\* input, the bases of b1 and b2 are equal if and only if b1 and b2 agree at
\* every non-deviation byte; every base is 0x00 at every deviation position;
\* so blocks that differ only at deviation positions share one dictionary
\* entry (dict_size 1 for such a two-block input).
BaseCollapse ==
    (mode = "multi" /\ pc = "enc_done")
    => /\ \A p, q \in 0..(num_blocks - 1) :
             LET same == AgreeOutsideDev(InputBlock(p), InputBlock(q))
             IN  /\ (BaseOf(p) = BaseOf(q)) <=> same
                 /\ (block_ids[p + 1] = block_ids[q + 1]) <=> same
       /\ \A k \in 1..dict.size : \A i \in DevPositions :
             dict.nodes[k].block[i + 1] = 0
       /\ (num_blocks = 2 /\ AgreeOutsideDev(InputBlock(0), InputBlock(1))
              => dict.size = 1 /\ HdrDictSize(out_file.data) = 1)

BaseCollapseWitness ==
    /\ mode = "multi" /\ pc = "enc_done" /\ num_blocks = 2
    /\ InputBlock(0) # InputBlock(1)
    /\ DevPositions # 0..(ArgBlockBytes - 1)
    /\ AgreeOutsideDev(InputBlock(0), InputBlock(1))
    /\ dict.size = 1

CompMagic == Slice(comp, 0, Min(4, Len(comp)))

\* C9 as stated: Bad magic.  decompress_file rejects, with a nonzero status
\* and no output file, every input whose first four bytes are not
\* 'D','D','P','1'; in particular a file beginning with 'D','D','P','2'.
OnlyDDP1Accepted ==
    (pc = "dec_done" /\ CompMagic # MagicDDP1)
    => dec_ret # 0 /\ ~dec_file.exists

\* C9 as amended: decompress_file rejects, with a nonzero status and no
\* output file, every input whose first four bytes are neither
\* 'D','D','P','1' nor 'D','D','P','2'; a file beginning with 'D','D','P','2'
\* goes to decompress_file_multi, and the file compress_file_multi wrote is
\* decoded with status 0.
BadMagic ==
    /\ (pc = "dec_done" /\ CompMagic \notin {MagicDDP1, MagicDDP2})
          => dec_ret # 0 /\ ~dec_file.exists
    /\ (pc \in {"dec_multi", "dec_loop_multi"} => CompMagic = MagicDDP2)
    /\ (pc \in {"dec_single", "dec_loop_single"} => CompMagic = MagicDDP1)
    /\ (pc = "dec_done" /\ Untampered /\ mode = "multi" /\ ArgsValid
            /\ Len(input) > 0 /\ Len(input) % ArgBlockBytes = 0
          => CompMagic = MagicDDP2 /\ dec_ret = 0 /\ dec_file.exists)

BadMagicWitness ==
    /\ pc = "dec_done" /\ mode = "multi"
    /\ CompMagic = <<68, 68, 80, 51>>
    /\ Slice(comp, 4, Len(comp) - 4) = Slice(out_file.data, 4, Len(comp) - 4)
    /\ dec_ret # 0 /\ ~dec_file.exists

\* the decoder was given the encoder's file with entries of the index
\* stream replaced, one of them by a value >= dict_size
BadIndexGiven ==
    /\ pc \in {"dec_start", "dec_single", "dec_multi", "dec_loop_single",
               "dec_loop_multi", "dec_done"}
    /\ Len(comp) = Len(out_file.data)
    /\ Slice(comp, 0, IdsOffset) = Slice(out_file.data, 0, IdsOffset)
    /\ \A i \in (IdsOffset + 4 * num_blocks + 1)..Len(comp) : comp[i] = out_file.data[i]
    /\ \E p \in 0..(num_blocks - 1) : read_u32_le(comp, IdsOffset + 4 * p) >= dict.size

\* C10: Index overflow.  For every file whose header and streams are
\* otherwise well formed, if an entry of the index stream is >= dict_size the
\* decoder returns a nonzero status and writes no output file, not even the
\* blocks rebuilt before the bad index (both decoders).
IndexOverflow ==
    BadIndexGiven
    => /\ ~dec_file.exists
       /\ (pc = "dec_done" => dec_ret # 0)

IndexOverflowWitness ==
    /\ BadIndexGiven /\ pc = "dec_done" /\ mode = "multi"
    /\ d_b >= 1 /\ Len(out) > 0
    /\ read_u32_le(comp, IdsOffset + 4 * d_b) = dict.size
    /\ dec_ret # 0 /\ ~dec_file.exists

\* C11 as stated: Header validation of dict_size.  The decoder rejects, with
\* a nonzero status and no output written, every file whose header declares
\* dict_size > 255, even when the rest of the file is consistent with it.
DictSizeAbove255Rejected ==
    (pc = "dec_done" /\ Len(comp) >= 20 /\ HdrDictSize(comp) > 255)
    => dec_ret # 0 /\ ~dec_file.exists

\* C11 as amended: the decoder places no upper bound on dict_size.  A file
\* whose header declares dict_size > 255 and whose rest is consistent with it
\* is accepted: all dict_size entries are loaded, the status is 0 and every
\* block is rebuilt.
DictSizeAbove255Accepted ==
    (Untampered /\ HdrDictSize(comp) > 255)
    => /\ (pc \in {"dec_loop_single", "dec_loop_multi"}
              => d_dict.size = HdrDictSize(comp)
                 /\ Len(d_dict.nodes) = HdrDictSize(comp))
       /\ (pc = "dec_done"
              => /\ dec_ret = 0
                 /\ dec_file = FileOf(SubSeq(input, 1, num_blocks * ArgBlockBytes)))

DictSizeAbove255Witness ==
    /\ pc = "dec_done" /\ Untampered /\ mode = "multi"
    /\ HdrDictSize(comp) = 256 /\ d_dict.size = 256
    /\ dec_ret = 0 /\ dec_file.exists

\* C12 as stated: Container layout.  Every file the encoder writes for a
\* field list starts with the magic 'DDP1', carries six u32 header fields
\* (block_bytes, num_fields, dict_size, num_blocks, dev_pos_count, dev_len),
\* the field sizes, the deviation positions, the dictionary, a one-byte
\* index per block and the deviation stream: 28 + 4*num_fields
\* + 4*dev_pos_count + dict_size*block_bytes + num_blocks + num_blocks*dev_len
\* bytes in all.
LayoutDDP1 ==
    (mode = "multi" /\ pc = "enc_done")
    => LET f == out_file.data
       IN  /\ Slice(f, 0, 4) = MagicDDP1
           /\ Len(f) = 28 + 4 * num_segs + 4 * ArgDevLen
                          + dict.size * ArgBlockBytes
                          + num_blocks + num_blocks * ArgDevLen

\* C12 as amended: every file the encoder writes for a field list is, in
\* order: magic 'DDP2'; little-endian u32 block_bytes, num_segs, dict_size,
\* num_blocks; num_segs u32 field sizes; dict_size base blocks in index order
\* (order of first occurrence in the input); num_blocks u32 indices; the
\* deviation stream of num_blocks * dev_len bytes.  No deviation positions
\* or dev_len are stored.  Its size is 20 + 4*num_segs + dict_size*block_bytes
\* + 4*num_blocks + num_blocks*dev_len bytes.
LayoutDDP2 ==
    (mode = "multi" /\ pc = "enc_done")
    => LET f == out_file.data
           nb == Len(input) \div ArgBlockBytes
           ds == Cardinality(BasesBelow(nb))
           dict_off == 20 + 4 * num_segs
           ids_off == dict_off + ds * ArgBlockBytes
           dev_off == ids_off + 4 * nb
       IN  /\ Len(f) = dev_off + nb * ArgDevLen
           /\ Slice(f, 0, 4) = <<68, 68, 80, 50>>
           /\ read_u32_le(f, 4) = ArgBlockBytes
           /\ read_u32_le(f, 8) = num_segs
           /\ read_u32_le(f, 12) = ds
           /\ read_u32_le(f, 16) = nb
           /\ \A s \in 1..num_segs : read_u32_le(f, 20 + 4 * (s - 1)) = seg_sizes[s]
           /\ \A p \in 0..(nb - 1) :
                 LET i == read_u32_le(f, ids_off + 4 * p)
                 IN  /\ i < ds
                     /\ Slice(f, dict_off + i * ArgBlockBytes, ArgBlockBytes) = BaseOf(p)
                     /\ (BaseOf(p) \notin BasesBelow(p)
                            => i = Cardinality(BasesBelow(p)))
                     /\ Slice(f, dev_off + p * ArgDevLen, ArgDevLen)
                            = SplitOf(InputBlock(p)).dev

LayoutDDP2Witness ==
    /\ mode = "multi" /\ pc = "enc_done" /\ num_segs = 2
    /\ num_blocks >= 2 /\ dict.size >= 2
    /\ Len(out_file.data) = 28 + 2 * ArgBlockBytes + 8 + 2 * ArgDevLen

\* C13: Encoder input rejection.  compress_file_multi returns a nonzero
\* status and does not open the output file when the field list is invalid
\* (num_segs <= 0 or a field size < 1) or when the input is shorter than one
\* block; the output file is opened only after every input block has been
\* read and admitted.
EncoderRejects ==
    mode = "multi"
    => /\ (~ArgsValid \/ Len(input) < ArgBlockBytes)
             => /\ pc \in {"enc_start", "enc_fail"}
                /\ ~out_file.exists
                /\ (pc = "enc_fail" => enc_ret # 0)
       /\ (pc = "enc_loop" => ~out_file.exists)
       /\ out_file.exists
             => /\ b = num_blocks
                /\ Len(block_ids) = num_blocks
                /\ num_blocks = Len(input) \div ArgBlockBytes

EncoderRejectsWitness ==
    /\ mode = "multi" /\ pc = "enc_fail"
    /\ num_segs = 2 /\ seg_sizes[1] = 2 /\ seg_sizes[2] < 1
    /\ Len(input) >= 2
    /\ enc_ret # 0 /\ ~out_file.exists

\* the decoder was given a proper prefix of the file the encoder wrote
PrefixGiven ==
    /\ pc \in {"dec_start", "dec_single", "dec_multi", "dec_loop_single",
               "dec_loop_multi", "dec_done"}
    /\ Len(comp) < Len(out_file.data)
    /\ comp = SubSeq(out_file.data, 1, Len(comp))

\* C14: Short read.  For every proper prefix of a file the encoder wrote
\* (cut in the magic, the header, the field list, the dictionary, the index
\* stream or the deviation stream) the decoder returns a nonzero status and
\* writes no output file; the merge loop is never entered.
ShortRead ==
    PrefixGiven
    => /\ ~dec_file.exists
       /\ pc \notin {"dec_loop_single", "dec_loop_multi"}
       /\ (pc = "dec_done" => dec_ret # 0)

ShortReadWitness ==
    /\ PrefixGiven /\ pc = "dec_done" /\ mode = "multi"
    /\ Len(comp) = Len(out_file.data) - 1
    /\ num_blocks >= 2
    /\ dec_ret # 0 /\ ~dec_file.exists

\* C16: Resource release.  On every exit path of an encode or decode, error
\* paths included (open, seek, short read, allocation failure of any buffer
\* or dictionary node, write failure, bad header, bad index), each acquired
\* resource is released exactly once before the function returns.
ResourceRelease ==
    res.at \in {"returned", "exited"}
    => /\ res.at = "returned"
       /\ res.live = {}
       /\ res.nodes = 0
       /\ ~res.double

\* the part that holds: every path that ends in a return statement
ReturnPathsRelease ==
    res.at = "returned" => res.live = {} /\ res.nodes = 0 /\ ~res.double

\* the decoder is about to merge block d_b, whose id is valid
MergePending ==
    /\ pc = "dec_loop_multi" /\ d_b < hdr.num_blocks
    /\ ~InvalidId(hdr.block_ids[d_b + 1], d_dict)
    /\ Len(hdr.dev_stream) > 0

\* C17: Decoder bounds safety.  For every header the decoder accepts (also
\* one whose field sizes do not sum to block_bytes, which is only warned
\* about), every byte the merge reads from the base block or writes to the
\* reconstructed block lies at an offset in [0, block_bytes), and every read
\* of the deviation stream lies inside the bytes that were read.
DecoderBoundsSafe ==
    MergePending
    => ~merge_base_and_deviation_multi(
            dict_get_block(d_dict, hdr.block_ids[d_b + 1]),
            hdr.num_segs, hdr.seg_sizes, DevFrom(d_b), tmp).oob

\* the part that holds: a header whose field sizes sum to at most block_bytes
BoundsSafeWhenSumFits ==
    (MergePending /\ SumSeq(hdr.seg_sizes) <= hdr.block_bytes)
    => ~merge_base_and_deviation_multi(
            dict_get_block(d_dict, hdr.block_ids[d_b + 1]),
            hdr.num_segs, hdr.seg_sizes, DevFrom(d_b), tmp).oob

\* 1-based positions of the blocks passed to dict_add that equal block
AddedEqual(block) == {k \in 1..Len(dcall.added) : dcall.added[k] = block}

\* C18: dict_find.  For every dictionary reached by dict_init and any
\* sequence of dict_add calls, and every block, dict_find returns the lowest
\* index of a stored entry whose block_size bytes equal the block, and -1
\* exactly when no stored entry equals it; the dictionary is unchanged.
DictFindCorrect ==
    dcall.op = "find"
    => LET m == AddedEqual(dcall.block)
       IN  /\ (dcall.ret = -1) <=> (m = {})
           /\ m # {} => /\ dcall.ret + 1 \in m
                        /\ \A k \in m : dcall.ret + 1 <= k
                        /\ dict_get_block(dict, dcall.ret) = dcall.block
           /\ dict = dcall.before

DictFindWitness ==
    /\ dcall.op = "find" /\ dict.size = 3 /\ dcall.ret = 1
    /\ dcall.added[2] = dcall.block /\ dcall.added[3] = dcall.block
    /\ dcall.added[1] # dcall.block

\* C19: dict_add.  After dict_init and any sequence of dict_add calls the
\* n-th added entry (from 0) has index n and is the n-th list node, size is
\* the number of adds, each dict_add returns the size before the call, and
\* the stored entries are unchanged by later adds and by the caller
\* overwriting its buffer.
DictAddCorrect ==
    pc = "dict"
    => /\ dict.size = Len(dcall.added)
       /\ Len(dict.nodes) = Len(dcall.added)
       /\ \A n \in 0..(Len(dcall.added) - 1) :
             /\ dict.nodes[n + 1].index = n
             /\ dict.nodes[n + 1].block = dcall.added[n + 1]
             /\ dict_get_block(dict, n) = dcall.added[n + 1]
       /\ dcall.op = "add" => /\ dcall.ret = dcall.before.size
                              /\ dcall.ret = Len(dcall.added) - 1
                              /\ dict.size = dcall.before.size + 1

DictAddWitness ==
    /\ pc = "dict" /\ dcall.op = "reuse" /\ dict.size = 3
    /\ dcall.added[1] = dcall.added[3] /\ dcall.added[2] # dcall.added[1]
    /\ dcall.block # dcall.added[3]
    /\ dict_get_block(dict, 2) = dcall.added[3]

\* C20: No duplicate bases.  At every point of an encode, and in the
\* dictionary section of every file the encoder writes, no two dictionary
\* entries are byte-for-byte equal (both encoders).
NoDuplicateBases ==
    /\ pc \in {"enc_loop", "enc_done"}
          => Cardinality({dict.nodes[k].block : k \in 1..Len(dict.nodes)})
                = dict.size
    /\ pc = "enc_done"
          => LET f == out_file.data
                 ds == HdrDictSize(f)
             IN  Cardinality({Slice(f, DictOffset + i * ArgBlockBytes,
                                    ArgBlockBytes) : i \in 0..(ds - 1)}) = ds

NoDuplicateBasesWitness ==
    /\ pc = "enc_done" /\ mode = "single"
    /\ num_blocks >= 3 /\ dict.size = 2
    /\ block_ids[1] = block_ids[3] /\ block_ids[2] # block_ids[1]

\* the deviation positions of a block in ascending order
DevPositionSeq ==
    [k \in 1..Cardinality(DevPositions) |->
        CHOOSE x \in DevPositions :
            Cardinality({y \in DevPositions : y < x}) = k - 1]

\* the bytes of a block at its deviation positions, in position order
DevBytesInOrder(block) ==
    [k \in 1..Cardinality(DevPositions) |-> block[DevPositionSeq[k] + 1]]

\* C21: Stream order.  In every file the encoder writes the deviation stream
\* has exactly num_blocks * dev_len bytes and its bytes
\* [b*dev_len, (b+1)*dev_len) are the deviation bytes of input block b in
\* position order; the decoder merges block b with exactly that slice and
\* places the result at output offset b * block_bytes.
StreamOrder ==
    /\ (mode = "multi" /\ pc = "enc_done")
          => LET f == out_file.data
                 dev_off == IdsOffset + 4 * num_blocks
             IN  /\ Len(f) - dev_off = num_blocks * Cardinality(DevPositions)
                 /\ \A p \in 0..(num_blocks - 1) :
                       Slice(f, dev_off + p * Cardinality(DevPositions),
                             Cardinality(DevPositions))
                           = DevBytesInOrder(InputBlock(p))
    /\ (mode = "multi" /\ pc = "dec_loop_multi" /\ Untampered)
          => /\ Len(out) = d_b * hdr.block_bytes
             /\ out = SubSeq(input, 1, d_b * hdr.block_bytes)
             /\ d_b < hdr.num_blocks
                   => Slice(DevFrom(d_b), 0, hdr.dev_len)
                          = DevBytesInOrder(InputBlock(d_b))

StreamOrderWitness ==
    /\ mode = "multi" /\ pc = "dec_loop_multi" /\ Untampered
    /\ num_segs = 2 /\ d_b = 1 /\ hdr.num_blocks >= 2
    /\ DevBytesInOrder(InputBlock(0)) # DevBytesInOrder(InputBlock(1))
    /\ out = InputBlock(0)

\* the arguments are valid and the input holds no full block
ZeroBlocks ==
    /\ ArgsValid
    /\ IF mode = "single"
       THEN (Len(input) \div width_bytes) < block_size_samples
       ELSE Len(input) < ArgBlockBytes

\* C22: No empty segment.  Every file the encoder writes has num_blocks >= 1
\* and dict_size >= 1 in its header; an encode that admits zero blocks never
\* enters the block loop, returns 1 and writes no file at all.
NoEmptyFile ==
    /\ out_file.exists
          => /\ HdrNumBlocks(out_file.data) >= 1
             /\ HdrDictSize(out_file.data) >= 1
             /\ HdrNumBlocks(out_file.data) = num_blocks
    /\ ZeroBlocks
          => /\ pc \notin {"enc_loop", "enc_done"}
             /\ ~out_file.exists
             /\ EncReturned => enc_ret = 1

NoEmptyFileWitness ==
    /\ ZeroBlocks /\ Len(input) > 0
    /\ pc = "enc_fail" /\ enc_ret = 1 /\ ~out_file.exists

\* C23 as stated: Decoder output size.  Whenever the decoder returns
\* success, the output file is exactly num_blocks * block_bytes bytes long
\* and every output byte was produced by a merge (none is left unwritten),
\* for every accepted header, on the DDP1 and on the DDP2 path.
DecoderOutputComplete ==
    (pc = "dec_done" /\ dec_ret = 0)
    => /\ dec_file.exists
       /\ Len(dec_file.data) = hdr.num_blocks * hdr.block_bytes
       /\ Len(out) = Len(dec_file.data)
       /\ \A i \in 1..Len(out) : out[i] # Uninit

\* the accepted header is consistent: the output size is that of the blocks
\* and the field sizes sum to block_bytes
HeaderConsistent ==
    /\ hdr.total_bytes = hdr.num_blocks * hdr.block_bytes
    /\ hdr.num_segs > 0 => SumSeq(hdr.seg_sizes) = hdr.block_bytes

\* C23, what the source guarantees: a success return on a consistent header
\* leaves an output file of num_blocks * block_bytes merged bytes.
OutputCompleteWhenConsistent ==
    (pc = "dec_done" /\ dec_ret = 0 /\ HeaderConsistent)
    => /\ dec_file = FileOf(out)
       /\ Len(out) = hdr.num_blocks * hdr.block_bytes
       /\ \A i \in 1..Len(out) : out[i] # Uninit

\* the index stream of the file the encoder wrote
FileIds == ReadU32s(out_file.data, IdsOffset, num_blocks)

\* first position (1-based) of index k in an index stream
FirstUse(ids, k) == FirstOf({p \in 1..Len(ids) : ids[p] = k})

\* the indices of a stream are numbered by first occurrence of their bases
InFirstOccurrenceOrder(ids, size) ==
    /\ Len(ids) >= 1 => ids[1] = 0
    /\ \A k \in 0..(size - 1) : \E p \in 1..Len(ids) : ids[p] = k
    /\ \A k \in 0..(size - 2) : FirstUse(ids, k) < FirstUse(ids, k + 1)
    /\ \A p \in 1..Len(ids) : ids[p] <= Cardinality(BasesBelow(p - 1))

\* C24: First-occurrence order.  In every file the encoder writes,
\* dictionary indices are assigned in order of first occurrence of each
\* base: block 0 has index 0, every dictionary entry is referenced by some
\* index, the first block using index k precedes the first block using
\* index k+1, and the index at block b is at most the number of distinct
\* bases among blocks 0..b-1 (which the loop keeps true block by block).
FirstOccurrenceOrder ==
    /\ (pc = "enc_loop" /\ b >= 1)
          => /\ Len(block_ids) = b
             /\ block_ids[1] = 0
             /\ block_ids[b] <= Cardinality(BasesBelow(b - 1))
             /\ block_ids[b] < dict.size
    /\ pc = "enc_done"
          => /\ Len(FileIds) = num_blocks
             /\ FileIds = block_ids
             /\ InFirstOccurrenceOrder(FileIds, HdrDictSize(out_file.data))

FirstOccurrenceOrderWitness ==
    /\ pc = "enc_done" /\ out_file.exists
    /\ num_blocks >= 3 /\ HdrDictSize(out_file.data) = 2
    /\ FileIds[1] = 0 /\ FileIds[2] = 1 /\ FileIds[3] = 0

\* the deviation length in closed form: half of every field, rounded down,
\* plus one byte when the last field (sample) has odd size
DevLenClosed ==
    IF mode = "single"
    THEN block_size_samples * (width_bytes \div 2)
             + (IF width_bytes % 2 = 1 THEN 1 ELSE 0)
    ELSE SumSeq([s \in 1..num_segs |-> seg_sizes[s] \div 2])
             + (IF seg_sizes[num_segs] % 2 = 1 THEN 1 ELSE 0)

\* 0-based deviation positions of a block, for either encoder
AllDevPositions ==
    IF mode = "single"
    THEN UNION {{s * width_bytes + j :
                    j \in 0..(TakeSingle(width_bytes, block_size_samples, s) - 1)} :
                  s \in 0..(block_size_samples - 1)}
    ELSE DevPositions

\* the decoder's merge of a base and a deviation slice into a fresh tmp
MergeOf(base, dev) ==
    LET fresh == [i \in 1..ArgBlockBytes |-> Uninit]
    IN  IF mode = "single"
        THEN merge_base_and_deviation_single(base, width_bytes,
                 block_size_samples, dev, fresh)
        ELSE merge_base_and_deviation_multi(base, num_segs, seg_sizes, dev, fresh)

\* the header's parameters are valid: a width of 1, 2, 4 or 8 and at least
\* one sample, or field sizes that are all >= 1
HdrValid ==
    IF hdr.num_segs = 0
    THEN hdr.width \in {1, 2, 4, 8} /\ hdr.samples >= 1
    ELSE \A s \in 1..hdr.num_segs : hdr.seg_sizes[s] >= 1

\* the merge the decoder's loop is about to call for block d_b
PendingMerge ==
    IF pc = "dec_loop_single"
    THEN merge_base_and_deviation_single(
             dict_get_block(d_dict, hdr.block_ids[d_b + 1]), hdr.width,
             hdr.samples, DevFrom(d_b), tmp)
    ELSE merge_base_and_deviation_multi(
             dict_get_block(d_dict, hdr.block_ids[d_b + 1]), hdr.num_segs,
             hdr.seg_sizes, DevFrom(d_b), tmp)

\* C25: Deviation length consistency.  For every valid field list the
\* number of bytes extract takes and merge consumes both equal
\* compute_dev_len (half of every field plus one for an odd last field), the
\* extracted positions are that many distinct offsets in [0, block_bytes),
\* and so the "used_dev != dev_len_per_block" branches of the encoder and of
\* the decoder are never taken; likewise for the uniform-width functions.
DevLenConsistent ==
    /\ (pc \in {"enc_start", "enc_done"} /\ ArgsValid
           /\ Len(input) >= ArgBlockBytes)
          => LET x == SplitOf(InputBlock(0))
                 m == MergeOf(x.block, x.dev)
             IN  /\ ArgDevLen = DevLenClosed
                 /\ x.used = ArgDevLen /\ Len(x.dev) = ArgDevLen
                 /\ ~m.oob /\ m.used = ArgDevLen
                 /\ AllDevPositions \subseteq 0..(ArgBlockBytes - 1)
                 /\ Cardinality(AllDevPositions) = ArgDevLen
                 /\ \A i \in 0..(ArgBlockBytes - 1) :
                       x.block[i + 1] = IF i \in AllDevPositions THEN 0
                                        ELSE InputBlock(0)[i + 1]
    /\ pc = "enc_fail" => num_blocks = 0 /\ b = 0
    /\ (pc = "enc_loop" /\ b < num_blocks)
          => SplitOf(InputBlock(b)).used = ArgDevLen
    /\ (pc \in {"dec_loop_single", "dec_loop_multi"} /\ d_b < hdr.num_blocks
           /\ ~InvalidId(hdr.block_ids[d_b + 1], d_dict)
           /\ Len(hdr.dev_stream) > 0 /\ HdrValid /\ ~PendingMerge.oob)
          => PendingMerge.used = hdr.dev_len

DevLenConsistentWitness ==
    /\ mode = "multi" /\ seg_sizes = <<2, 1>> /\ ArgDevLen = 2
    /\ pc = "dec_loop_multi" /\ d_b = 1 /\ hdr.num_blocks = 2
    /\ HdrValid /\ PendingMerge.used = 2
    /\ enc_ret = 0

====
